---- MODULE Spec2Model ----
(***************************************************************************)
(* Model of src/app.py: the /chat handler of the legal widget gateway.     *)
(*                                                                         *)
(* A request is handled in steps, one per blocking point of the code:      *)
(*   Receive -> chat_validate -> chat_route -> get_access_token_*          *)
(*           -> call_vertex_search | call_deep_agent                       *)
(* Python locals (body, query, token, ...) are functions of the request.   *)
(* Text is a sequence of one-character strings (queries) or of opaque      *)
(* words (fixed messages, snippets); a JSON scalar is a record [t, s].     *)
(***************************************************************************)
EXTENDS Integers, Sequences, FiniteSets, TLC

\* ------------------------------------------------------------------ bounds

\* Requests that may be in flight together.
NumRequests == 2
\* A query is a concatenation of at most MaxParts fragments.
MaxParts == 2
\* A Search Backend response carries at most MaxResults results.
MaxResults == 2

Reqs == 1..NumRequests

\* ------------------------------------------------------- program constants

vertex_timeout == 30
deep_agent_timeout == 60
pageSize == 3

\* ------------------------------------------------------------- JSON values

JAbsent == [t |-> "absent", s |-> <<>>]
JNull == [t |-> "null", s |-> <<>>]
JNumber == [t |-> "number", s |-> <<"7">>]
JStr(s) == [t |-> "string", s |-> s]

\* ------------------------------------------------------------------- text

UpperChars == <<"A", "C", "D", "E", "G", "L", "N">>
LowerChars == <<"a", "c", "d", "e", "g", "l", "n">>
Whitespace == {" ", "\t", "\n"}

\* str.lower() on one character
lower_char(c) ==
  IF \E i \in 1..Len(UpperChars) : UpperChars[i] = c
  THEN LowerChars[CHOOSE i \in 1..Len(UpperChars) : UpperChars[i] = c]
  ELSE c

\* str.lower()
lower(s) == [i \in 1..Len(s) |-> lower_char(s[i])]

\* The text as received, nothing dropped.
strip_missing(s) == s

\* str.strip(): drops leading and trailing whitespace, keeps inner whitespace
strip(s) ==
  LET keep == {i \in 1..Len(s) : s[i] \notin Whitespace}
  IN IF keep = {} THEN <<>>
     ELSE LET lo == CHOOSE i \in keep : \A j \in keep : i <= j
              hi == CHOOSE i \in keep : \A j \in keep : j <= i
          IN SubSeq(s, lo, hi)

\* `k in s` for Python strings
str_in(k, s) ==
  \E i \in 0..(Len(s) - Len(k)) : SubSeq(s, i + 1, i + Len(k)) = k

keywords ==
  { <<"c","o","n","t","r","a","c","t">>,
    <<"c","l","a","u","s","e">>,
    <<"n","d","a">>,
    <<"a","g","r","e","e","m","e","n","t">>,
    <<"p","o","l","i","c","y">>,
    <<"l","e","g","a","l">>,
    <<"d","o","c","u","m","e","n","t">> }

\* The keyword test on the text as typed, without lower-casing it.
is_legal_docs_question_nolower(q) == \E k \in keywords : str_in(k, q)

is_legal_docs_question(q) ==
  LET q_low == lower(q)
  IN \E k \in keywords : str_in(k, q_low)

\* ------------------------------------------------------------ request body

\* What request.get_json(force=True) meets: bytes that are no JSON, or a JSON
\* value; `query` is the value under the key "query" of a JSON object.
Body(kind, q) == [kind |-> kind, query |-> q]

Fragments ==
  keywords \cup
  { <<"N","D","A">>, <<"a","g","e">>, <<" ">> }

RECURSIVE Texts(_)
Texts(n) ==
  IF n = 0 THEN {<<>>}
  ELSE Texts(n - 1) \cup {t \o f : t \in Texts(n - 1), f \in Fragments}

Bodies ==
  { Body("unparsable", JAbsent), Body("null", JAbsent), Body("array", JAbsent),
    Body("object", JAbsent), Body("object", JNull), Body("object", JNumber) }
  \cup { Body("object", JStr(t)) : t \in Texts(MaxParts) }

\* The bodies used when several requests are in flight together.
ConcBodies ==
  { Body("object", JNull), Body("object", JStr(<<" ">>)),
    Body("object", JStr(<<"N","D","A">>)), Body("object", JStr(<<"a","g","e">>)) }

\* ------------------------------------------------------ collaborator replies

\* Credential source.  kind "ok" yields a token; the others are the ways the
\* local CLI or the metadata service fail.
CliOutcomes == {"ok", "cli_absent", "cli_error"}
MetadataOutcomes == {"ok", "transport_error", "http_error", "bad_json", "missing_field"}

\* A result of the Search Backend: a JSON object whose "snippet" is absent or
\* a string, or a JSON null in place of the object.
Item(t, snippet) == [t |-> t, snippet |-> snippet]

Snippets ==
  { JAbsent, JStr(<<>>), JStr(<<"NDA summary text">>) }

Items == { Item("object", sn) : sn \in Snippets } \cup { Item("null", JAbsent) }

RECURSIVE ItemSeqs(_)
ItemSeqs(n) ==
  IF n = 0 THEN {<<>>}
  ELSE ItemSeqs(n - 1) \cup {Append(q, i) : q \in ItemSeqs(n - 1), i \in Items}

Results(t, items) == [t |-> t, items |-> items]
SearchData(t, results) == [t |-> t, results |-> results]
NoSearchData == SearchData("none", Results("absent", <<>>))

SearchReply(kind, data) == [kind |-> kind, data |-> data]

SearchRepliesOf(seqs) ==
  { SearchReply(k, NoSearchData) : k \in {"transport_error", "http_error", "bad_json"} }
  \cup { SearchReply("parsed", SearchData("array", Results("absent", <<>>))),
         SearchReply("parsed", SearchData("object", Results("absent", <<>>))),
         SearchReply("parsed", SearchData("object", Results("null", <<>>))) }
  \cup { SearchReply("parsed", SearchData("object", Results("array", q))) : q \in seqs }

SearchReplies == SearchRepliesOf(ItemSeqs(MaxResults))

ConcSearchReplies ==
  SearchRepliesOf({ <<>>, <<Item("object", JStr(<<"NDA summary text">>))>> })

\* A reply of the Agent Backend: "output" is absent, null or an object whose
\* "text" is absent, null or a string.
Output(t, text) == [t |-> t, text |-> text]
AgentData(t, output) == [t |-> t, output |-> output]
NoAgentData == AgentData("none", Output("absent", JAbsent))

AgentReply(kind, data) == [kind |-> kind, data |-> data]

Texts_of_agent == { JAbsent, JNull, JStr(<<>>), JStr(<<"Sunny.">>) }

AgentReplies ==
  { AgentReply(k, NoAgentData) : k \in {"transport_error", "http_error", "bad_json"} }
  \cup { AgentReply("parsed", AgentData("array", Output("absent", JAbsent))),
         AgentReply("parsed", AgentData("object", Output("absent", JAbsent))),
         AgentReply("parsed", AgentData("object", Output("null", JAbsent))) }
  \cup { AgentReply("parsed", AgentData("object", Output("object", x))) : x \in Texts_of_agent }

ConcAgentReplies ==
  { r \in AgentReplies : r.kind = "http_error" \/ r.data.output.text = JStr(<<"Sunny.">>) }

\* ------------------------------------------------- answers and exceptions

NoMatch == JStr(<<"No matching documents were found in the legal index.">>)
NoSnippet == JStr(<<"Found documents, but no snippet was available.">>)
NoAnswer == JStr(<<"No answer from deep agent.">>)
EmptyQuery == JStr(<<"Empty query.">>)

\* A Python call either returns a value or raises an exception with a message.
Return(v) == [ok |-> TRUE, val |-> v, err |-> "none"]
Raise(msg) == [ok |-> FALSE, val |-> JAbsent, err |-> msg]

\* bool(x) of a JSON scalar
truthy(v) == v.t = "number" \/ (v.t = "string" /\ v.s # <<>>)

\* ------------------------------------------------------ response extraction

\* The extraction reading the last result instead of the first.
vertex_answer_last(data) ==
  IF data.t # "object" THEN Raise("AttributeError: no attribute 'get'")
  ELSE LET results == data.results
           empty == results.t \in {"absent", "null"} \/ results.items = <<>>
       IN IF empty THEN Return(NoMatch)
          ELSE LET last == results.items[Len(results.items)]
               IN IF last.t # "object"
                  THEN Raise("AttributeError: no attribute 'get'")
                  ELSE LET snippet ==
                             IF last.snippet.t = "absent" THEN JStr(<<>>)
                             ELSE last.snippet
                       IN IF truthy(snippet) THEN Return(snippet)
                          ELSE Return(NoSnippet)

\* call_vertex_search, lines 97-104, on the parsed JSON `data`.
vertex_answer(data) ==
  IF data.t # "object" THEN Raise("AttributeError: no attribute 'get'")
  ELSE LET results == data.results
           empty == results.t \in {"absent", "null"} \/ results.items = <<>>
       IN IF empty THEN Return(NoMatch)
          ELSE LET first == results.items[1]
               IN IF first.t # "object"
                  THEN Raise("AttributeError: no attribute 'get'")
                  ELSE LET snippet ==
                             IF first.snippet.t = "absent" THEN JStr(<<>>)
                             ELSE first.snippet
                       IN IF truthy(snippet) THEN Return(snippet)
                          ELSE Return(NoSnippet)

\* call_deep_agent, line 79, on the parsed JSON `data`.
deep_answer(data) ==
  IF data.t # "object" THEN Raise("AttributeError: no attribute 'get'")
  ELSE LET output == data.output
       IN CASE output.t = "absent" -> Return(NoAnswer)
            [] output.t = "null" -> Raise("AttributeError: 'NoneType' object has no attribute 'get'")
            [] OTHER -> IF output.text.t = "absent" THEN Return(NoAnswer)
                        ELSE Return(output.text)

\* requests.post(...); resp.raise_for_status(); resp.json()
http_json(reply) ==
  CASE reply.kind = "transport_error" -> Raise("ConnectionError")
    [] reply.kind = "http_error" -> Raise("HTTPError")
    [] reply.kind = "bad_json" -> Raise("JSONDecodeError")
    [] OTHER -> Return(JAbsent)

\* ------------------------------------------------------------ the envelope

NoResult == [kind |-> "none", status |-> 0, answer |-> JAbsent, source |-> "absent"]

\* jsonify({...}), status
Envelope(status, answer, source) ==
  [kind |-> "envelope", status |-> status, answer |-> answer, source |-> source]

\* What Flask answers when the view function raises: its own error page, no
\* envelope.  400 for werkzeug's BadRequest, 500 for any other exception.
Unhandled(status) ==
  [kind |-> "unhandled", status |-> status, answer |-> JAbsent, source |-> "absent"]

\* The error envelope returned without its status, hence with Flask's 200.
error_envelope_200(msg) == Envelope(200, JStr(<<"Error: ", msg>>), "absent")

\* chat, lines 130-131: f"Error: {e}"
error_envelope(msg) == Envelope(500, JStr(<<"Error: ", msg>>), "absent")

\* chat, line 129 (and 125 / 128)
success_envelope(answer, source) == Envelope(200, answer, source)

\* chat, lines 117-120: the value of `query`, or the exception raised
chat_query(b) ==
  CASE b.kind = "unparsable" -> Raise("BadRequest")
    [] b.kind # "object" -> Raise("AttributeError: no attribute 'get'")
    [] b.query.t = "absent" -> Return(JStr(strip(<<>>)))
    [] b.query.t # "string" -> Raise("AttributeError: no attribute 'strip'")
    [] OTHER -> Return(JStr(strip(b.query.s)))

\* ------------------------------------------------------------------- state

VARIABLES
  config,   \* os.environ and the module globals read from it (lines 11-31, 49)
  pc,       \* where each request's handling stands
  body,     \* the request body
  query,    \* chat's local `query`
  route,    \* the branch of chat taken: the backend client called
  token,    \* the local `token` of the backend client; 0 is the empty string
  cred,     \* what the credential source answered
  sreply,   \* what the Search Backend answered
  areply,   \* what the Agent Backend answered
  sent,     \* the POST issued to a backend
  result,   \* what the caller gets back
  trace,    \* the calls made while handling the request, in order
  minted    \* tokens the credential source has issued so far

vars ==
  <<config, pc, body, query, route, token, cred, sreply, areply, sent, result,
    trace, minted>>

NoBody == Body("none", JAbsent)
NoSearchReply == SearchReply("none", NoSearchData)
NoAgentReply == AgentReply("none", NoAgentData)
\* What the credential source answered: how it went, and the token it gave.
Cred(kind, tok) == [kind |-> kind, token |-> tok]
NoCred == Cred("none", 0)
NoCall ==
  [url |-> "none", bearer |-> 0, shape |-> "none", text |-> <<>>,
   pageSize |-> 0, timeout |-> 0]

Configs ==
  { [LOCAL_DEV |-> d,
     DEEP_AGENT_ENDPOINT |-> "DEEP_AGENT_ENDPOINT",
     VERTEX_SEARCH_URL |-> "VERTEX_SEARCH_URL"] : d \in {"1", "unset"} }

Init ==
  /\ config \in Configs
  /\ pc = [r \in Reqs |-> "idle"]
  /\ body = [r \in Reqs |-> NoBody]
  /\ query = [r \in Reqs |-> <<>>]
  /\ route = [r \in Reqs |-> "none"]
  /\ token = [r \in Reqs |-> 0]
  /\ cred = [r \in Reqs |-> NoCred]
  /\ sreply = [r \in Reqs |-> NoSearchReply]
  /\ areply = [r \in Reqs |-> NoAgentReply]
  /\ sent = [r \in Reqs |-> NoCall]
  /\ result = [r \in Reqs |-> NoResult]
  /\ trace = [r \in Reqs |-> <<>>]
  /\ minted = 0

\* ----------------------------------------------------------------- actions

\* Flask dispatches a POST /chat to chat (lines 115-116).
Receive(r, b) ==
  /\ pc[r] = "idle"
  /\ pc' = [pc EXCEPT ![r] = "chat"]
  /\ body' = [body EXCEPT ![r] = b]
  /\ UNCHANGED <<config, query, route, token, cred, sreply, areply, sent,
                 result, trace, minted>>

\* chat's validation with `query` kept in a module global that every request
\* in flight reads.
chat_validate_global_query(r) ==
  /\ pc[r] = "chat"
  /\ LET q == chat_query(body[r])
     IN IF ~q.ok
        THEN /\ pc' = [pc EXCEPT ![r] = "done"]
             /\ result' = [result EXCEPT ![r] =
                             Unhandled(IF q.err = "BadRequest" THEN 400 ELSE 500)]
             /\ UNCHANGED query
        ELSE IF q.val.s = <<>>
        THEN /\ pc' = [pc EXCEPT ![r] = "done"]
             /\ result' = [result EXCEPT ![r] = Envelope(400, EmptyQuery, "absent")]
             /\ UNCHANGED query
        ELSE /\ pc' = [pc EXCEPT ![r] = "try"]
             /\ query' = [x \in Reqs |-> q.val.s]
             /\ UNCHANGED result
  /\ UNCHANGED <<config, body, route, token, cred, sreply, areply, sent,
                 trace, minted>>

\* chat, lines 117-120.
chat_validate(r) ==
  /\ pc[r] = "chat"
  /\ LET q == chat_query(body[r])
     IN IF ~q.ok
        THEN /\ pc' = [pc EXCEPT ![r] = "done"]
             /\ result' = [result EXCEPT ![r] =
                             Unhandled(IF q.err = "BadRequest" THEN 400 ELSE 500)]
             /\ UNCHANGED query
        ELSE IF q.val.s = <<>>
        THEN /\ pc' = [pc EXCEPT ![r] = "done"]
             /\ result' = [result EXCEPT ![r] = Envelope(400, EmptyQuery, "absent")]
             /\ UNCHANGED query
        ELSE /\ pc' = [pc EXCEPT ![r] = "try"]
             /\ query' = [query EXCEPT ![r] = q.val.s]
             /\ UNCHANGED result
  /\ UNCHANGED <<config, body, route, token, cred, sreply, areply, sent,
                 trace, minted>>

\* chat, lines 123-124 / 126-127: the branch taken.
chat_branch(q) ==
  IF is_legal_docs_question(q) THEN "vertex_search" ELSE "deep_agent"

\* chat, lines 122-127: classify and call the backend client.
chat_route(r) ==
  /\ pc[r] = "try"
  /\ route' = [route EXCEPT ![r] = chat_branch(query[r])]
  /\ trace' = [trace EXCEPT ![r] =
                 <<"is_legal_docs_question",
                   IF route'[r] = "vertex_search" THEN "call_vertex_search"
                   ELSE "call_deep_agent">>]
  /\ pc' = [pc EXCEPT ![r] = "token"]
  /\ UNCHANGED <<config, body, query, token, cred, sreply, areply, sent,
                 result, minted>>

\* get_access_token, lines 49-51: os.popen(...).read().strip().  The shell's
\* standard output is empty when gcloud is absent or fails; popen raises
\* nothing and read() waits for the command to end, however long it takes.
get_access_token_local_dev(r, out) ==
  /\ pc[r] = "token"
  /\ config.LOCAL_DEV = "1"
  /\ cred' = [cred EXCEPT ![r] = Cred(out, IF out = "ok" THEN minted + 1 ELSE 0)]
  /\ trace' = [trace EXCEPT ![r] = Append(@, "get_access_token")]
  /\ minted' = IF out = "ok" THEN minted + 1 ELSE minted
  /\ token' = [token EXCEPT ![r] = IF out = "ok" THEN minted + 1 ELSE 0]
  /\ pc' = [pc EXCEPT ![r] = "post"]
  /\ UNCHANGED <<config, body, query, route, sreply, areply, sent, result>>

\* get_access_token with a module-level cache: once a token has been issued
\* it is handed out again without asking the metadata service.
get_access_token_metadata_cached(r, out) ==
  /\ pc[r] = "token"
  /\ config.LOCAL_DEV # "1"
  /\ IF minted > 0
     THEN /\ token' = [token EXCEPT ![r] = minted]
          /\ pc' = [pc EXCEPT ![r] = "post"]
          /\ UNCHANGED <<cred, trace, minted, result>>
     ELSE /\ cred' = [cred EXCEPT ![r] = Cred(out, IF out = "ok" THEN minted + 1 ELSE 0)]
          /\ trace' = [trace EXCEPT ![r] = Append(@, "get_access_token")]
          /\ IF out = "ok"
             THEN /\ minted' = minted + 1
                  /\ token' = [token EXCEPT ![r] = minted + 1]
                  /\ pc' = [pc EXCEPT ![r] = "post"]
                  /\ UNCHANGED result
             ELSE /\ pc' = [pc EXCEPT ![r] = "done"]
                  /\ result' = [result EXCEPT ![r] =
                                  error_envelope(IF out = "missing_field"
                                                 THEN "'access_token'" ELSE out)]
                  /\ UNCHANGED <<minted, token>>
  /\ UNCHANGED <<config, body, query, route, sreply, areply, sent>>

\* get_access_token, lines 53-59, and chat's except clause when it raises.
get_access_token_metadata(r, out) ==
  /\ pc[r] = "token"
  /\ config.LOCAL_DEV # "1"
  /\ cred' = [cred EXCEPT ![r] = Cred(out, IF out = "ok" THEN minted + 1 ELSE 0)]
  /\ trace' = [trace EXCEPT ![r] = Append(@, "get_access_token")]
  /\ IF out = "ok"
     THEN /\ minted' = minted + 1
          /\ token' = [token EXCEPT ![r] = minted + 1]
          /\ pc' = [pc EXCEPT ![r] = "post"]
          /\ UNCHANGED result
     ELSE /\ pc' = [pc EXCEPT ![r] = "done"]
          /\ result' = [result EXCEPT ![r] =
                          error_envelope(IF out = "missing_field"
                                         THEN "'access_token'" ELSE out)]
          /\ UNCHANGED <<minted, token>>
  /\ UNCHANGED <<config, body, query, route, sreply, areply, sent>>

\* call_vertex_search, lines 87-104, then chat, lines 125 and 129-131.
call_vertex_search(r, rep) ==
  /\ pc[r] = "post"
  /\ route[r] = "vertex_search"
  /\ sent' = [sent EXCEPT ![r] =
                [url |-> config.VERTEX_SEARCH_URL, bearer |-> token[r],
                 shape |-> "query", text |-> query[r],
                 pageSize |-> pageSize, timeout |-> vertex_timeout]]
  /\ trace' = [trace EXCEPT ![r] = Append(@, "POST vertex_search")]
  /\ sreply' = [sreply EXCEPT ![r] = rep]
  /\ LET h == http_json(rep)
         a == IF h.ok THEN vertex_answer(rep.data) ELSE h
     IN result' = [result EXCEPT ![r] =
                     IF a.ok THEN success_envelope(a.val, "vertex_search")
                     ELSE error_envelope(a.err)]
  /\ pc' = [pc EXCEPT ![r] = "done"]
  /\ UNCHANGED <<config, body, query, route, token, cred, areply, minted>>

\* call_deep_agent, lines 66-79, then chat, lines 128-131.
call_deep_agent(r, rep) ==
  /\ pc[r] = "post"
  /\ route[r] = "deep_agent"
  /\ sent' = [sent EXCEPT ![r] =
                [url |-> config.DEEP_AGENT_ENDPOINT, bearer |-> token[r],
                 shape |-> "query.text+session", text |-> query[r],
                 pageSize |-> 0, timeout |-> deep_agent_timeout]]
  /\ trace' = [trace EXCEPT ![r] = Append(@, "POST deep_agent")]
  /\ areply' = [areply EXCEPT ![r] = rep]
  /\ LET h == http_json(rep)
         a == IF h.ok THEN deep_answer(rep.data) ELSE h
     IN result' = [result EXCEPT ![r] =
                     IF a.ok THEN success_envelope(a.val, "deep_agent")
                     ELSE error_envelope(a.err)]
  /\ pc' = [pc EXCEPT ![r] = "done"]
  /\ UNCHANGED <<config, body, query, route, token, cred, sreply, minted>>

\* ---------------------------------------------------------- specifications

\* One request, every body and every reply of the collaborators.
Next ==
  \/ \E b \in Bodies : Receive(1, b)
  \/ chat_validate(1)
  \/ chat_route(1)
  \/ \E out \in CliOutcomes : get_access_token_local_dev(1, out)
  \/ \E out \in MetadataOutcomes : get_access_token_metadata(1, out)
  \/ \E rep \in SearchReplies : call_vertex_search(1, rep)
  \/ \E rep \in AgentReplies : call_deep_agent(1, rep)

Spec == Init /\ [][Next]_vars

\* Several requests in flight, their steps interleaved in any order.
NextConc ==
  \/ \E r \in Reqs, b \in ConcBodies : Receive(r, b)
  \/ \E r \in Reqs : chat_validate(r)
  \/ \E r \in Reqs : chat_route(r)
  \/ \E r \in Reqs, out \in CliOutcomes : get_access_token_local_dev(r, out)
  \/ \E r \in Reqs, out \in MetadataOutcomes : get_access_token_metadata(r, out)
  \/ \E r \in Reqs, rep \in ConcSearchReplies : call_vertex_search(r, rep)
  \/ \E r \in Reqs, rep \in ConcAgentReplies : call_deep_agent(r, rep)

SpecConc == Init /\ [][NextConc]_vars

\* What the code's scheduling guarantees: a worker that can take a step of the
\* handler takes it, and every requests.get / requests.post ends, in a reply
\* or in the exception its timeout raises (lines 56, 75, 95).  Nothing bounds
\* os.popen(...).read() (line 51), so no fairness is stated for it.
Fairness ==
  \A r \in Reqs :
    /\ WF_vars(chat_validate(r))
    /\ WF_vars(chat_route(r))
    /\ WF_vars(\E out \in MetadataOutcomes : get_access_token_metadata(r, out))
    /\ WF_vars(\E rep \in ConcSearchReplies : call_vertex_search(r, rep))
    /\ WF_vars(\E rep \in ConcAgentReplies : call_deep_agent(r, rep))

SpecLive == Init /\ [][NextConc]_vars /\ Fairness

\* ------------------------------------------------------------------ claims

Count(seq, e) == Cardinality({i \in 1..Len(seq) : seq[i] = e})
Posts(r) == Count(trace[r], "POST vertex_search") + Count(trace[r], "POST deep_agent")
Acquisitions(r) == Count(trace[r], "get_access_token")

\* The body is a JSON object whose `query` is text made of whitespace only.
IsBlank(b) ==
  /\ b.kind = "object"
  /\ b.query.t = "string"
  /\ \A i \in 1..Len(b.query.s) : b.query.s[i] \in Whitespace

IsErrorEnvelope(res) ==
  /\ res.kind = "envelope"
  /\ res.status = 500
  /\ res.answer.t = "string"
  /\ Len(res.answer.s) >= 1
  /\ res.answer.s[1] = "Error: "
  /\ res.source = "absent"

\* C1: a request whose query is empty or only whitespace is answered 400 with
\* {answer: "Empty query."}, and while it is handled no credential is acquired
\* and no backend is called.
C1_BlankQueryRejected ==
  \A r \in Reqs :
    IsBlank(body[r]) =>
      /\ pc[r] \in {"chat", "done"}
      /\ pc[r] = "done" => result[r] = Envelope(400, EmptyQuery, "absent")
      /\ trace[r] = <<>>
      /\ cred[r] = NoCred
      /\ sent[r] = NoCall

C1_Witness ==
  \E r \in Reqs :
    /\ IsBlank(body[r])
    /\ body[r].query.s # <<>>
    /\ pc[r] = "done"
    /\ result[r].status = 400

\* The same letter, whatever its case.
CaseFold ==
  { <<"A", "a">>, <<"C", "c">>, <<"D", "d">>, <<"E", "e">>, <<"G", "g">>,
    <<"L", "l">>, <<"N", "n">> }
SameLetter(c, k) == c = k \/ <<c, k>> \in CaseFold

\* Some keyword occurs in the text at some position, letter by letter,
\* case-insensitively.
MentionsKeyword(s) ==
  \E k \in keywords : \E i \in 1..Len(s) :
    /\ i + Len(k) - 1 <= Len(s)
    /\ \A j \in 1..Len(k) : SameLetter(s[i + j - 1], k[j])

\* C2: for a non-blank query the Search Backend client is invoked exactly when
\* the query mentions one of the seven keywords (any case, as a substring) and
\* the Agent Backend client otherwise; at most one backend is called, and a
\* 200 answer names as source the backend that was called.
C2_RouteByKeyword ==
  \A r \in Reqs :
    (body[r].kind = "object" /\ body[r].query.t = "string" /\ ~IsBlank(body[r])) =>
      LET q == body[r].query.s
          search == Count(trace[r], "call_vertex_search")
          agent == Count(trace[r], "call_deep_agent")
      IN /\ pc[r] \in {"token", "post", "done"} =>
              /\ search = (IF MentionsKeyword(q) THEN 1 ELSE 0)
              /\ agent = (IF MentionsKeyword(q) THEN 0 ELSE 1)
         /\ search + agent <= 1
         /\ Posts(r) <= 1
         /\ Count(trace[r], "POST vertex_search") <= search
         /\ Count(trace[r], "POST deep_agent") <= agent
         /\ pc[r] = "done" => result[r].kind = "envelope"
         /\ result[r].status = 200 =>
              /\ result[r].source = "vertex_search"
                   <=> Count(trace[r], "POST vertex_search") = 1
              /\ result[r].source = "deep_agent"
                   <=> Count(trace[r], "POST deep_agent") = 1

\* An upper-case keyword inside a padded query reached the Search Backend.
C2_Witness ==
  \E r \in Reqs :
    /\ body[r].query.t = "string"
    /\ \E i \in 1..Len(body[r].query.s) : body[r].query.s[i] = "N"
    /\ \E i \in 1..Len(body[r].query.s) : body[r].query.s[i] = " "
    /\ result[r].status = 200
    /\ result[r].source = "vertex_search"

CredFailed(r) ==
  cred[r].kind \in {"transport_error", "http_error", "bad_json", "missing_field"}
BackendFailed(r) ==
  \/ sreply[r].kind \in {"transport_error", "http_error", "bad_json"}
  \/ areply[r].kind \in {"transport_error", "http_error", "bad_json"}

\* C3: in production mode a failed credential acquisition or a failed backend
\* call ends the request with status 500, an answer starting "Error: " and no
\* source; the failed call is the last outbound call of the request: it is not
\* retried, no backend is called after a failed acquisition, and the other
\* backend is not tried.
C3_FailureIsTerminal ==
  \A r \in Reqs :
    config.LOCAL_DEV # "1" =>
      /\ CredFailed(r) =>
           /\ pc[r] = "done"
           /\ IsErrorEnvelope(result[r])
           /\ Acquisitions(r) = 1
           /\ Posts(r) = 0
           /\ sent[r] = NoCall
           /\ trace[r][Len(trace[r])] = "get_access_token"
      /\ BackendFailed(r) =>
           /\ pc[r] = "done"
           /\ IsErrorEnvelope(result[r])
           /\ Acquisitions(r) = 1
           /\ Posts(r) = 1
           /\ Count(trace[r], "call_vertex_search") + Count(trace[r], "call_deep_agent") = 1
           /\ trace[r][Len(trace[r])] \in {"POST vertex_search", "POST deep_agent"}

C3_Witness ==
  \E r \in Reqs :
    /\ config.LOCAL_DEV # "1"
    /\ cred[r].kind = "ok"
    /\ sreply[r].kind = "http_error"
    /\ pc[r] = "done"

\* The query is absent from a JSON object, or is blank text.
AbsentOrBlank(b) ==
  \/ b.kind = "object" /\ b.query.t = "absent"
  \/ IsBlank(b)

\* C4: whatever the body and whatever the collaborators answer, a handled
\* request ends in an envelope: 400 "Empty query." when the query is absent or
\* blank, else 200 with answer and source, or 500 with an "Error: " answer; no
\* exception leaves the handler.
C4_AlwaysAnEnvelope ==
  \A r \in Reqs :
    pc[r] = "done" =>
      /\ result[r].kind = "envelope"
      /\ \/ /\ AbsentOrBlank(body[r])
            /\ result[r] = Envelope(400, EmptyQuery, "absent")
         \/ /\ ~AbsentOrBlank(body[r])
            /\ result[r].status = 200
            /\ result[r].source \in {"vertex_search", "deep_agent"}
         \/ /\ ~AbsentOrBlank(body[r])
            /\ IsErrorEnvelope(result[r])

\* C5: in development mode, when the local CLI is absent or fails, credential
\* acquisition fails: the request ends with status 500 and an "Error: "
\* answer, and no backend call is issued.
C5_CliFailureIsAnError ==
  \A r \in Reqs :
    (config.LOCAL_DEV = "1" /\ cred[r].kind \in {"cli_absent", "cli_error"}) =>
      /\ sent[r] = NoCall
      /\ Posts(r) = 0
      /\ pc[r] = "done" => IsErrorEnvelope(result[r])

\* What the first result alone says the answer is.
FirstOnlyAnswer(item) ==
  IF item.snippet.t = "string" /\ item.snippet.s # <<>> THEN item.snippet
  ELSE NoSnippet

C7_AgentAnswer ==
  \A r \in Reqs :
    (areply[r].kind = "parsed" /\ areply[r].data.t = "object") =>
      LET out == areply[r].data.output
      IN result[r] =
           Envelope(200,
                    IF out.t = "object" /\ out.text.t # "absent" THEN out.text
                    ELSE NoAnswer,
                    "deep_agent")

\* C8: a request that gets past validation acquires a credential exactly once,
\* after classification and before its single backend call; the bearer token
\* of that call is the one this request acquired, and no other request carries
\* a token this request acquired.
C8_FreshTokenPerRequest ==
  \A r \in Reqs :
    /\ Acquisitions(r) <= 1
    /\ Posts(r) <= 1
    /\ pc[r] \in {"post", "done"} /\ route[r] # "none" =>
         /\ Acquisitions(r) = 1
         /\ Len(trace[r]) >= 3
         /\ trace[r][1] = "is_legal_docs_question"
         /\ trace[r][3] = "get_access_token"
    /\ Posts(r) = 1 =>
         /\ Len(trace[r]) = 4
         /\ trace[r][4] \in {"POST vertex_search", "POST deep_agent"}
         /\ sent[r].bearer = cred[r].token
         /\ cred[r].kind = "ok" =>
              /\ sent[r].bearer # 0
              /\ \A o \in Reqs \ {r} :
                   sent[o].bearer # sent[r].bearer /\ token[o] # sent[r].bearer

\* Two requests have both called a backend, each with its own token.
C8_Witness ==
  \E r \in Reqs : \E o \in Reqs \ {r} :
    /\ Posts(r) = 1 /\ Posts(o) = 1
    /\ cred[r].kind = "ok" /\ cred[o].kind = "ok"
    /\ sent[r].bearer # sent[o].bearer

\* C9: every invocation of the handler eventually returns, in both credential
\* modes.
C9_EveryInvocationReturns ==
  \A r \in Reqs : (pc[r] = "chat") ~> (pc[r] = "done")

\* In production mode every outbound call carries a timeout, and there every
\* invocation does return.
ProductionInvocationReturns ==
  \A r \in Reqs : (config.LOCAL_DEV # "1" /\ pc[r] = "chat") ~> (pc[r] = "done")

\* chat run alone on body b under configuration cfg, the credential source
\* answering c and the backends srep / arep: the route, the token, the POST
\* and the result it ends with.
Alone(cfg, b, c, srep, arep) ==
  LET q == chat_query(b)
      rt == chat_branch(q.val.s)
      tok == c.token
      went == q.ok /\ q.val.s # <<>>
      posted == went /\ (c.kind = "ok" \/ cfg.LOCAL_DEV = "1")
      h == IF rt = "vertex_search" THEN http_json(srep) ELSE http_json(arep)
      a == IF ~h.ok THEN h
           ELSE IF rt = "vertex_search" THEN vertex_answer(srep.data)
           ELSE deep_answer(arep.data)
  IN [ route |-> IF went THEN rt ELSE "none",
       token |-> IF posted THEN tok ELSE 0,
       sent |-> IF ~posted THEN NoCall
                ELSE IF rt = "vertex_search"
                THEN [url |-> cfg.VERTEX_SEARCH_URL, bearer |-> tok, shape |-> "query",
                      text |-> q.val.s, pageSize |-> pageSize, timeout |-> vertex_timeout]
                ELSE [url |-> cfg.DEEP_AGENT_ENDPOINT, bearer |-> tok,
                      shape |-> "query.text+session", text |-> q.val.s,
                      pageSize |-> 0, timeout |-> deep_agent_timeout],
       result |-> IF ~q.ok THEN Unhandled(IF q.err = "BadRequest" THEN 400 ELSE 500)
                  ELSE IF q.val.s = <<>> THEN Envelope(400, EmptyQuery, "absent")
                  ELSE IF ~posted
                  THEN error_envelope(IF c.kind = "missing_field"
                                      THEN "'access_token'" ELSE c.kind)
                  ELSE IF a.ok THEN success_envelope(a.val, rt)
                  ELSE error_envelope(a.err) ]

\* The handling state of one request.
Locals(r) ==
  <<pc[r], body[r], query[r], route[r], token[r], cred[r], sreply[r], areply[r],
    sent[r], result[r], trace[r]>>

AgreesWithAlone(r) ==
  pc[r] = "done" =>
    LET alone == Alone(config, body[r], cred[r], sreply[r], areply[r])
    IN /\ route[r] = alone.route
       /\ token[r] = alone.token
       /\ sent[r] = alone.sent
       /\ result[r] = alone.result

\* C10: however the steps of concurrent requests interleave, each request ends
\* with the route, token, backend call and envelope it would have had alone
\* with the same collaborator answers; a step of one request changes nothing of
\* another request, and the configuration is never written.
C10_NoInterference ==
  /\ [](\A r \in Reqs : AgreesWithAlone(r))
  /\ [][ /\ config' = config
         /\ \E r \in Reqs : \A o \in Reqs \ {r} : Locals(o)' = Locals(o) ]_vars

\* Two requests on different routes have both ended, the second one to
\* arrive ending first.
C10_Witness ==
  \E r \in Reqs : \E o \in Reqs \ {r} :
    /\ pc[r] = "done" /\ pc[o] = "done"
    /\ route[r] = "vertex_search" /\ route[o] = "deep_agent"
    /\ result[r].status = 200 /\ result[o].status = 200
    /\ cred[r].token < cred[o].token

====
